---- MODULE Spec2Model ----
(***************************************************************************)
(* Model of the hunspell Go binding (src/hunspell.go).                     *)
(*                                                                         *)
(* The Go layer (NewSpell, Paths, NewSpellPaths, IsCorrect, Suggest, Add,  *)
(* AddWithAffix, Remove, AddDict, Analyze, Stem, goStrings) is translated  *)
(* from the source.  The engine behind the cgo calls (Hunspell_create,     *)
(* Hunspell_spell, ...) is the C library libhunspell, which is not part of *)
(* the source tree: it is modelled from sections 3 and 4 of the            *)
(* specification on small parsed dictionaries.  For the system dictionary  *)
(* en_US used by TestHunspell the engine's answers are the ones the test   *)
(* records (wantSuggest).                                                  *)
(*                                                                         *)
(* Words are NUL-free strings, so C.CString and C.GoString copy them       *)
(* unchanged.                                                              *)
(***************************************************************************)
EXTENDS Integers, Sequences, FiniteSets, TLC

VARIABLES
    s,      \* the *Spell the caller holds: nilSpell, or [handle |-> engine state]
    ret     \* the last call made and what it returned

vars == <<s, ret>>

\* A nil *Spell, and a nil error.
nilSpell == [nil |-> TRUE]

nilError == "nil"

(***************************************************************************)
(* Strings                                                                 *)
(***************************************************************************)

\* Byte order of the characters that occur in the model's words.
ByteOrder == " ABCDEFGHIJKLMNOPQRSTUVWXYZabcdefghijklmnopqrstuvwxyz"

Chr(w, i) == SubSeq(w, i, i)

Ord(c) == CHOOSE i \in 1..Len(ByteOrder) : Chr(ByteOrder, i) = c

RECURSIVE StrLess(_, _)
\* Go's string comparison a < b (bytewise lexical order).
StrLess(a, b) ==
    IF Len(b) = 0 THEN FALSE
    ELSE IF Len(a) = 0 THEN TRUE
    ELSE IF Chr(a, 1) = Chr(b, 1) THEN StrLess(Tail(a), Tail(b))
    ELSE Ord(Chr(a, 1)) < Ord(Chr(b, 1))

StartsWith(w, x) == Len(x) <= Len(w) /\ SubSeq(w, 1, Len(x)) = x

EndsWith(w, x) == Len(x) <= Len(w) /\ SubSeq(w, Len(w) - Len(x) + 1, Len(w)) = x

DropLeft(w, n) == SubSeq(w, n + 1, Len(w))

DropRight(w, n) == SubSeq(w, 1, Len(w) - n)

Min2(a, b) == IF a < b THEN a ELSE b

RECURSIVE DistFill(_, _, _, _, _, _)
\* One row of the edit-distance table: cur holds the entries 0..Len(cur)-1 of
\* row i, prev is row i-1 and pprev row i-2 (adjacent transposition).
DistFill(a, b, i, pprev, prev, cur) ==
    IF Len(cur) = Len(b) + 1 THEN cur
    ELSE LET j    == Len(cur)
             cost == IF Chr(a, i) = Chr(b, j) THEN 0 ELSE 1
             d3   == Min2(Min2(prev[j + 1] + 1, cur[j] + 1), prev[j] + cost)
             d4   == IF i > 1 /\ j > 1 /\ Chr(a, i) = Chr(b, j - 1)
                        /\ Chr(a, i - 1) = Chr(b, j)
                     THEN Min2(d3, pprev[j - 1] + 1) ELSE d3
         IN  DistFill(a, b, i, pprev, prev, Append(cur, d4))

RECURSIVE DistRows(_, _, _)
\* <<row i-1, row i>> of the edit-distance table of a and b.
DistRows(a, b, i) ==
    IF i = 0 THEN << <<>>, [j \in 1..(Len(b) + 1) |-> j - 1] >>
    ELSE LET r == DistRows(a, b, i - 1)
         IN  << r[2], DistFill(a, b, i, r[1], r[2], <<i>>) >>

\* Edit distance with deletion, insertion, substitution and adjacent
\* transposition each counting one.
EditDistance(a, b) == DistRows(a, b, Len(a))[2][Len(b) + 1]

SeqToSet(q) == {q[i] : i \in 1..Len(q)}

NoDuplicates(q) == \A i, j \in 1..Len(q) : q[i] = q[j] => i = j

\* q without repeated entries, first occurrences kept in order.
Dedup(q) ==
    LET First(i) == \A j \in 1..(i - 1) : q[j] # q[i]
        keep     == SelectSeq([i \in 1..Len(q) |-> i], First)
    IN  [k \in 1..Len(keep) |-> q[keep[k]]]

(***************************************************************************)
(* Files the calls may name (the environment of os.Stat and of the engine) *)
(***************************************************************************)

lang == "en_US"

path == "/usr/share/hunspell"

\* filepath.Join of a directory and a file name: an empty directory is
\* dropped, and Clean leaves the model's paths as they are.
Join(dir, file) == IF dir = "" THEN file ELSE dir \o "/" \o file

\* Affix rules of d/toy.aff in load order: flag S appends "s", flag U
\* prepends "u" (both cross-product), flag N turns a final "b" into "n"
\* (no cross-product).
ToyRules ==
    << [flag |-> "S", kind |-> "SFX", strip |-> "", add |-> "s", cond |-> "", cross |-> TRUE],
       [flag |-> "U", kind |-> "PFX", strip |-> "", add |-> "u", cond |-> "", cross |-> TRUE],
       [flag |-> "N", kind |-> "SFX", strip |-> "b", add |-> "n", cond |-> "b", cross |-> FALSE] >>

NoRoots == [w \in {} |-> {}]

\* The files that exist, with their parsed content.  "bad.dic" exists but
\* is malformed; every other path is absent.
Files ==
    ("d/toy.aff" :> [kind |-> "aff", rules |-> ToyRules])
    @@ ("d/toy.dic" :> [kind |-> "dic", roots |-> ("ab" :> {"S", "U", "N"})])
    @@ ("d/nec.dic" :> [kind |-> "dic", roots |-> ("necessary" :> {})])
    @@ ("en_au.dic" :> [kind |-> "dic", roots |-> ("colour" :> {})])
    @@ ("bad.dic" :> [kind |-> "malformed"])
    @@ (Join(path, lang \o ".aff") :> [kind |-> "system"])
    @@ (Join(path, lang \o ".dic") :> [kind |-> "system"])

\* os.Stat(p) returns a nil error.
Stat(p) == p \in DOMAIN Files

(***************************************************************************)
(* The engine behind the cgo calls                                         *)
(***************************************************************************)

\* Characters tried by substitution and insertion (the configured alphabet).
Alphabet == "abnsu"

\* Matches(rule, word): the rule's condition holds at the end the rule
\* works on.
Matches(rule, word) ==
    IF rule.kind = "SFX" THEN EndsWith(word, rule.cond)
    ELSE StartsWith(word, rule.cond)

\* Generation: the rule can be applied to the root ...
Applicable(rule, root) ==
    /\ Matches(rule, root)
    /\ IF rule.kind = "SFX" THEN EndsWith(root, rule.strip)
       ELSE StartsWith(root, rule.strip)

\* ... and the surface form it produces.
ApplyRule(rule, root) ==
    IF rule.kind = "SFX" THEN DropRight(root, Len(rule.strip)) \o rule.add
    ELSE rule.add \o DropLeft(root, Len(rule.strip))

\* Analysis: the surface form carries the rule's add string ...
Stripable(rule, word) ==
    IF rule.kind = "SFX" THEN EndsWith(word, rule.add)
    ELSE StartsWith(word, rule.add)

\* ... and the root it would come from.
StripRule(rule, word) ==
    IF rule.kind = "SFX" THEN DropRight(word, Len(rule.add)) \o rule.strip
    ELSE rule.strip \o DropLeft(word, Len(rule.add))

\* The strips analysis tries, in order: no affix, each suffix, each prefix,
\* each prefix with each suffix.  0 stands for no rule.
Combos(h) ==
    LET n   == Len(h.rules)
        all == [i \in 1..n |-> i]
        IsS(i) == h.rules[i].kind = "SFX"
        IsP(i) == h.rules[i].kind = "PFX"
        sfx == SelectSeq(all, IsS)
        pfx == SelectSeq(all, IsP)
        both == [k \in 1..(Len(pfx) * Len(sfx)) |->
                    [p |-> pfx[((k - 1) \div Len(sfx)) + 1],
                     s |-> sfx[((k - 1) % Len(sfx)) + 1]]]
    IN  << [p |-> 0, s |-> 0] >>
        \o [k \in 1..Len(sfx) |-> [p |-> 0, s |-> sfx[k]]]
        \o [k \in 1..Len(pfx) |-> [p |-> pfx[k], s |-> 0]]
        \o both

\* The word left when combo c's prefix is stripped (the word itself if the
\* combo has no prefix); "" with ok FALSE when the prefix is not there.
Unprefixed(h, w, c) ==
    IF c.p = 0 THEN [ok |-> TRUE, w |-> w]
    ELSE IF Stripable(h.rules[c.p], w)
         THEN [ok |-> TRUE, w |-> StripRule(h.rules[c.p], w)]
         ELSE [ok |-> FALSE, w |-> ""]

\* The root combo c recovers from w, if its affixes are there.
Stripped(h, w, c) ==
    LET u == Unprefixed(h, w, c)
    IN  IF ~u.ok \/ c.s = 0 THEN u
        ELSE IF Stripable(h.rules[c.s], u.w)
             THEN [ok |-> TRUE, w |-> StripRule(h.rules[c.s], u.w)]
             ELSE [ok |-> FALSE, w |-> ""]

\* Combo c is a derivation of w: the stripped remainder is a root, the root
\* carries the flag of each rule, each rule's condition holds on the root,
\* and a prefix and a suffix stripped together are both cross-product rules.
Derives(h, w, c) ==
    LET r == Stripped(h, w, c)
    IN  /\ r.ok
        /\ r.w \in DOMAIN h.roots
        /\ c.p # 0 => /\ h.rules[c.p].flag \in h.roots[r.w]
                      /\ Applicable(h.rules[c.p], r.w)
        /\ c.s # 0 => /\ h.rules[c.s].flag \in h.roots[r.w]
                      /\ Applicable(h.rules[c.s], r.w)
        /\ (c.p # 0 /\ c.s # 0) => (h.rules[c.p].cross /\ h.rules[c.s].cross)

\* Every derivation of w, in the order analysis finds them.
Derivations(h, w) ==
    LET Test(c) == Derives(h, w, c)
    IN  SelectSeq(Combos(h), Test)

\* Generation: the surface forms the root r yields under the rules its flags
\* name: r itself, r with one rule applied, and r with a cross-product
\* suffix and a cross-product prefix applied together.
Generate(h, r) ==
    LET Idx == 1..Len(h.rules)
        Can(i) == h.rules[i].flag \in h.roots[r] /\ Applicable(h.rules[i], r)
        Sfx == {i \in Idx : h.rules[i].kind = "SFX" /\ Can(i)}
        Pfx == {i \in Idx : h.rules[i].kind = "PFX" /\ Can(i)}
    IN  {r}
        \cup {ApplyRule(h.rules[i], r) : i \in Sfx \cup Pfx}
        \cup {ApplyRule(h.rules[p], ApplyRule(h.rules[q], r)) :
                <<p, q>> \in {x \in Pfx \X Sfx :
                                h.rules[x[1]].cross /\ h.rules[x[2]].cross}}

\* Hunspell_create(affpath, dpath): the rules of the affix file and the roots
\* of the dictionary file; an empty path gives none.  `system` marks the
\* system dictionary, whose content the model does not parse.
Hunspell_create(affpath, dpath) ==
    [rules  |-> IF affpath \in DOMAIN Files /\ Files[affpath].kind = "aff"
                THEN Files[affpath].rules ELSE <<>>,
     roots  |-> IF dpath \in DOMAIN Files /\ Files[dpath].kind = "dic"
                THEN Files[dpath].roots ELSE NoRoots,
     system |-> dpath \in DOMAIN Files /\ Files[dpath].kind = "system"]

words ==
    << "children", "language", "necessarily", "necessary", "ran",
       "unnecessarily", "unnecessary", "unwritten",
       "definately", "langauge", "seperate" >>

\* The misspelt words of the test's list (its second group).
misspelt == {"definately", "langauge", "seperate"}

wantSuggest ==
    [children      |-> << "children" >>,
     language      |-> << "language", "languages" >>,
     necessarily   |-> << "necessarily" >>,
     necessary     |-> << "necessary" >>,
     ran           |-> << "rein", "tan", "ram", "an", "rain", "rant", "roan", "rand",
                          "rang", "gran", "bran", "rank", "Iran", "Tran", "Oran" >>,
     unnecessarily |-> << "unnecessarily" >>,
     unnecessary   |-> << "unnecessary" >>,
     unwritten     |-> << "unwritten" >>,
     definately    |-> << "definitely", "effeminately", "definitively", "indefinably" >>,
     langauge      |-> << "language", "Augean", "Angela" >>,
     seperate      |-> << "separate", "desperate", "temperate", "exasperate", "serrate" >>]

\* The engine's verdict on a word, parsed dictionaries: some derivation.
ToySpell(h, w) == IF Derivations(h, w) # <<>> THEN 1 ELSE 0

\* The engine's verdict on a word of the test's list, system dictionary.
SystemSpell(w) == IF w \in misspelt THEN 0 ELSE 1

\* Hunspell_spell(handle, word): non-zero iff the word is accepted.
Hunspell_spell(h, w) == IF h.system THEN SystemSpell(w) ELSE ToySpell(h, w)

\* w with the character at i left out.
Deletions(w) ==
    [i \in 1..Len(w) |-> SubSeq(w, 1, i - 1) \o SubSeq(w, i + 1, Len(w))]

\* w with the characters at i and i+1 exchanged.
Swaps(w) ==
    [i \in 1..(Len(w) - 1) |->
        SubSeq(w, 1, i - 1) \o Chr(w, i + 1) \o Chr(w, i) \o SubSeq(w, i + 2, Len(w))]

\* w with the character at i replaced by the x-th of the alphabet.
Replaced(w, i, x) == SubSeq(w, 1, i - 1) \o Chr(Alphabet, x) \o SubSeq(w, i + 1, Len(w))

Substitutions(w) ==
    LET Changed(c) == c # w
    IN  SelectSeq([x \in 1..(Len(w) * Len(Alphabet)) |->
                      Replaced(w, ((x - 1) \div Len(Alphabet)) + 1,
                               ((x - 1) % Len(Alphabet)) + 1)], Changed)

\* w with the x-th character of the alphabet put in after position i.
Inserted(w, i, x) == SubSeq(w, 1, i) \o Chr(Alphabet, x) \o SubSeq(w, i + 1, Len(w))

Insertions(w) ==
    [x \in 1..((Len(w) + 1) * Len(Alphabet)) |->
        Inserted(w, (x - 1) \div Len(Alphabet), ((x - 1) % Len(Alphabet)) + 1)]

\* w split in two by a blank after each position of cut.
SplitAt(w, cut) ==
    [x \in 1..Len(cut) |-> SubSeq(w, 1, cut[x]) \o " " \o SubSeq(w, cut[x] + 1, Len(w))]

\* The splits of w whose halves are both accepted.
Splits(h, w) ==
    LET Halves(i) == /\ ToySpell(h, SubSeq(w, 1, i)) # 0
                     /\ ToySpell(h, SubSeq(w, i + 1, Len(w))) # 0
    IN  SplitAt(w, SelectSeq([i \in 1..(Len(w) - 1) |-> i], Halves))

\* The candidate pool of one edit: deletions, adjacent transpositions,
\* substitutions and insertions over the alphabet, and splits in two whose
\* halves are both accepted.
Pool(h, w) ==
    Deletions(w) \o Swaps(w) \o Substitutions(w) \o Insertions(w) \o Splits(h, w)

\* Mutant of Filter: the pool is returned unfiltered.
Filter_None(h, pool) == pool

\* Step 2: the candidates the checker accepts.
Filter(h, pool) ==
    LET Good(c) == ToySpell(h, c) # 0
    IN  SelectSeq(pool, Good)

\* Candidate a ranks before candidate b for the query w: smaller edit
\* distance first, then lexical order (the toy dictionaries carry no
\* frequency score).
RankBefore(w, a, b) ==
    LET da == EditDistance(w, a)
        db == EditDistance(w, b)
    IN  da < db \/ (da = db /\ StrLess(a, b))

\* The candidates of q, each with its edit distance from w.
Keyed(w, q) == [i \in 1..Len(q) |-> [d |-> EditDistance(w, q[i]), c |-> q[i]]] \o <<>>

KeyBefore(x, y) == x.d < y.d \/ (x.d = y.d /\ StrLess(x.c, y.c))

\* Step 4: the surviving candidates, each once, as a ranked list.
Rank(w, q) ==
    LET k == SortSeq(Keyed(w, Dedup(q)), KeyBefore)
    IN  [i \in 1..Len(k) |-> k[i].c]

\* Suggestions from a parsed dictionary: the ranked, deduplicated survivors,
\* computed only for a word the checker rejects.
ToySuggest(h, w) ==
    IF ToySpell(h, w) # 0 THEN <<>>
    ELSE Rank(w, Filter(h, Pool(h, w)))

\* Suggestions the engine gives for a word of the test's list under the
\* system dictionary: the list the test requires.
SystemSuggest(w) == wantSuggest[w]

\* Insert(word, flags): an entry already present is replaced.
Insert(roots, w, flags) ==
    [x \in (DOMAIN roots) \cup {w} |-> IF x = w THEN flags ELSE roots[x]]

\* Mutant of Hunspell_suggest: the engine learns the queried word.
Hunspell_suggest_Learns(h, w) ==
    LET l == IF h.system THEN SystemSuggest(w) ELSE ToySuggest(h, w)
    IN  [handle |-> IF h.system THEN h ELSE [h EXCEPT !.roots = Insert(h.roots, w, {})],
         list |-> l, n |-> Len(l)]

\* Hunspell_suggest(handle, &slst, word): the list and its length; the
\* handle is only read.
Hunspell_suggest(h, w) ==
    LET l == IF h.system THEN SystemSuggest(w) ELSE ToySuggest(h, w)
    IN  [handle |-> h, list |-> l, n |-> Len(l)]

\* One analysis line: the root and the flags of the rules stripped.
Annotation(h, w, c) ==
    " st:" \o Stripped(h, w, c).w
    \o (IF c.p = 0 THEN "" ELSE " fl:" \o h.rules[c.p].flag)
    \o (IF c.s = 0 THEN "" ELSE " fl:" \o h.rules[c.s].flag)

\* Hunspell_analyze(handle, &slst, word): one line per derivation.
Hunspell_analyze(h, w) ==
    LET d == Derivations(h, w)
        l == [i \in 1..Len(d) |-> Annotation(h, w, d[i])]
    IN  [list |-> l, n |-> Len(l)]

\* Hunspell_stem(handle, &slst, word): the roots of the derivations, each
\* once, in first-seen order.
Hunspell_stem(h, w) ==
    LET d == Derivations(h, w)
        l == Dedup([i \in 1..Len(d) |-> Stripped(h, w, d[i]).w])
    IN  [list |-> l, n |-> Len(l)]

\* Hunspell_add(handle, word): a root with no flags; returns 0.
Hunspell_add(h, w) ==
    [handle |-> [h EXCEPT !.roots = Insert(h.roots, w, {})], rc |-> 0]

\* Hunspell_add_with_affix(handle, word, example): a root with the flags of
\* the example; rejected (1) when the example is no root.
Hunspell_add_with_affix(h, w, e) ==
    IF e \in DOMAIN h.roots
    THEN [handle |-> [h EXCEPT !.roots = Insert(h.roots, w, h.roots[e])], rc |-> 0]
    ELSE [handle |-> h, rc |-> 1]

\* Hunspell_remove(handle, word): the root is dropped; an absent word is a
\* no-op; returns 0.
Hunspell_remove(h, w) ==
    [handle |-> [h EXCEPT !.roots = [x \in (DOMAIN h.roots) \ {w} |-> h.roots[x]]],
     rc |-> 0]

\* Hunspell_add_dic(handle, dpath): the roots of a well-formed source are
\* merged; a malformed or absent source is rejected (1) and merges nothing.
Hunspell_add_dic(h, dpath) ==
    IF dpath \in DOMAIN Files /\ Files[dpath].kind = "dic"
    THEN [handle |-> [h EXCEPT !.roots = Files[dpath].roots @@ h.roots], rc |-> 0]
    ELSE [handle |-> h, rc |-> 1]

(***************************************************************************)
(* The Go binding                                                          *)
(***************************************************************************)

\* Paths(path, lang)
Paths(p, l) ==
    IF l = "" /\ p # ""
    THEN [aff |-> "", dic |-> "", err |-> "missing lang"]
    ELSE IF l # ""
         THEN [aff |-> Join(p, l \o ".aff"), dic |-> Join(p, l \o ".dic"), err |-> nilError]
         ELSE [aff |-> "", dic |-> "", err |-> nilError]

\* Mutant of NewSpellPaths: the dictionary file is not checked.
NewSpellPaths_NoDictStat(affix, dict) ==
    IF affix # "" /\ ~Stat(affix)
    THEN [spell |-> nilSpell, err |-> "open " \o affix]
    ELSE [spell |-> [handle |-> Hunspell_create(affix, dict)], err |-> nilError]

\* NewSpellPaths(affix, dict)
NewSpellPaths(affix, dict) ==
    IF affix # "" /\ ~Stat(affix)
    THEN [spell |-> nilSpell, err |-> "open " \o affix]
    ELSE IF dict # "" /\ ~Stat(dict)
         THEN [spell |-> nilSpell, err |-> "open " \o dict]
         ELSE [spell |-> [handle |-> Hunspell_create(affix, dict)], err |-> nilError]

\* NewSpell(path, lang)
NewSpell(p, l) ==
    LET r == Paths(p, l)
    IN  IF r.err # nilError THEN [spell |-> nilSpell, err |-> r.err]
        ELSE NewSpellPaths(r.aff, r.dic)

\* Mutant of goStrings: every entry is read from the head of the list.
goStrings_FirstOnly(src, n) ==
    IF n = 0 THEN <<>>
    ELSE [i \in 1..n |-> src[1]]

\* goStrings(src, n): nil for an empty list, else the first n entries.
goStrings(src, n) ==
    IF n = 0 THEN <<>>
    ELSE [i \in 1..n |-> src[i]]

\* Mutant of IsCorrect: the result is tested like Add's.
IsCorrect_EqZero(sp, word) == Hunspell_spell(sp.handle, word) = 0

\* (s *Spell) IsCorrect(word)
IsCorrect(sp, word) == Hunspell_spell(sp.handle, word) # 0

\* (s *Spell) Suggest(word): the Spell afterwards and the suggestions.
Suggest(sp, word) ==
    LET r == Hunspell_suggest(sp.handle, word)
    IN  [spell |-> [handle |-> r.handle], val |-> goStrings(r.list, r.n)]

\* Mutant of Analyze: the call made is Stem's.
Analyze_CallsStem(sp, word) ==
    LET r == Hunspell_stem(sp.handle, word)
    IN  goStrings(r.list, r.n)

\* (s *Spell) Analyze(word)
Analyze(sp, word) ==
    LET r == Hunspell_analyze(sp.handle, word)
    IN  goStrings(r.list, r.n)

\* (s *Spell) Stem(word)
Stem(sp, word) ==
    LET r == Hunspell_stem(sp.handle, word)
    IN  goStrings(r.list, r.n)

\* (s *Spell) Add(word): the Spell afterwards and ok.
Add(sp, word) ==
    LET r == Hunspell_add(sp.handle, word)
    IN  [spell |-> [handle |-> r.handle], ok |-> r.rc = 0]

\* (s *Spell) AddWithAffix(word, example)
AddWithAffix(sp, word, example) ==
    LET r == Hunspell_add_with_affix(sp.handle, word, example)
    IN  [spell |-> [handle |-> r.handle], ok |-> r.rc = 0]

\* Mutant of Remove: the result is tested like IsCorrect's.
Remove_NonZero(sp, word) ==
    LET r == Hunspell_remove(sp.handle, word)
    IN  [spell |-> [handle |-> r.handle], ok |-> r.rc # 0]

\* (s *Spell) Remove(word)
Remove(sp, word) ==
    LET r == Hunspell_remove(sp.handle, word)
    IN  [spell |-> [handle |-> r.handle], ok |-> r.rc = 0]

\* Mutant of AddDict: the engine's result is dropped.
AddDict_IgnoreRc(sp, p) ==
    IF ~Stat(p) THEN [spell |-> sp, err |-> "open " \o p]
    ELSE LET r == Hunspell_add_dic(sp.handle, p)
         IN  [spell |-> [handle |-> r.handle], err |-> nilError]

\* Mutant of AddDict: the engine's result is tested against 0.
AddDict_InvertedRc(sp, p) ==
    IF ~Stat(p) THEN [spell |-> sp, err |-> "open " \o p]
    ELSE LET r == Hunspell_add_dic(sp.handle, p)
         IN  [spell |-> [handle |-> r.handle],
              err   |-> IF r.rc = 0 THEN "failed to add dictionary" ELSE nilError]

\* (s *Spell) AddDict(path): the engine is not called when the file is
\* absent; its result 1 becomes an error.
AddDict(sp, p) ==
    IF ~Stat(p) THEN [spell |-> sp, err |-> "open " \o p]
    ELSE LET r == Hunspell_add_dic(sp.handle, p)
         IN  [spell |-> [handle |-> r.handle],
              err   |-> IF r.rc = 1 THEN "failed to add dictionary" ELSE nilError]

(***************************************************************************)
(* The caller: one Spell, constructed once, then any calls in any order    *)
(***************************************************************************)

\* Arguments the caller draws from.
DirInputs == {"", "d", path}

LangInputs == {"", "toy", lang}

AffixInputs == {"", "d/toy.aff", "d/none.aff"}

DictInputs == {"", "d/toy.dic", "d/nec.dic", "d/none.dic"}

ExtraInputs == {"en_au.dic", "bad.dic", "none.dic"}

MutWords == {"ab", "abs"}

Examples == {"ab", "zz"}

RemoveWords == MutWords \cup {"colour", "zz"}

ToyWords ==
    {"ab", "abs", "uab", "uabs", "an", "uan", "ba", "abb",
     "colour", "necessary", "necesary"}

SuggestWords == {"ab", "abb", "ba", "necesary"}

AnalyzeWords == {"ab", "an", "uabs", "abb"}

\* The words the model queries: under the system dictionary only the words
\* of the test's list, whose answers the test fixes.
QueryWords(sp, toy) == IF sp.handle.system THEN SeqToSet(words) ELSE toy

Parsed == s # nilSpell /\ ~s.handle.system

\* The record of a call: its name and arguments, and what it returned (a
\* bool, an error or a list; the other two fields are left at their zero).
Returned(op, a, b, ok, err, list) ==
    [op |-> op, a |-> a, b |-> b, ok |-> ok, err |-> err, list |-> list]

BoolCall(op, a, b, ok) == Returned(op, a, b, ok, nilError, <<>>)

ErrCall(op, a, b, err) == Returned(op, a, b, FALSE, err, <<>>)

ListCall(op, a, b, list) == Returned(op, a, b, FALSE, nilError, list)

CallNewSpell ==
    /\ s = nilSpell
    /\ \E p \in DirInputs, l \in LangInputs :
          LET r == NewSpell(p, l)
          IN  /\ s' = r.spell
              /\ ret' = ErrCall("NewSpell", p, l, r.err)

CallNewSpellPaths ==
    /\ s = nilSpell
    /\ \E a \in AffixInputs, d \in DictInputs :
          LET r == NewSpellPaths(a, d)
          IN  /\ s' = r.spell
              /\ ret' = ErrCall("NewSpellPaths", a, d, r.err)

CallIsCorrect ==
    /\ s # nilSpell
    /\ \E w \in QueryWords(s, ToyWords) : ret' = BoolCall("IsCorrect", w, "", IsCorrect(s, w))
    /\ UNCHANGED s

CallSuggest ==
    /\ s # nilSpell
    /\ \E w \in QueryWords(s, SuggestWords) :
          LET r == Suggest(s, w)
          IN  /\ s' = r.spell
              /\ ret' = ListCall("Suggest", w, "", r.val)

CallAnalyze ==
    /\ Parsed
    /\ \E w \in AnalyzeWords : ret' = ListCall("Analyze", w, "", Analyze(s, w))
    /\ UNCHANGED s

CallStem ==
    /\ Parsed
    /\ \E w \in AnalyzeWords : ret' = ListCall("Stem", w, "", Stem(s, w))
    /\ UNCHANGED s

CallAdd ==
    /\ Parsed
    /\ \E w \in MutWords :
          LET r == Add(s, w)
          IN  /\ s' = r.spell
              /\ ret' = BoolCall("Add", w, "", r.ok)

CallAddWithAffix ==
    /\ Parsed
    /\ \E w \in MutWords, e \in Examples :
          LET r == AddWithAffix(s, w, e)
          IN  /\ s' = r.spell
              /\ ret' = BoolCall("AddWithAffix", w, e, r.ok)

CallRemove ==
    /\ Parsed
    /\ \E w \in RemoveWords :
          LET r == Remove(s, w)
          IN  /\ s' = r.spell
              /\ ret' = BoolCall("Remove", w, "", r.ok)

CallAddDict ==
    /\ Parsed
    /\ \E p \in ExtraInputs :
          LET r == AddDict(s, p)
          IN  /\ s' = r.spell
              /\ ret' = ErrCall("AddDict", p, "", r.err)

Init == s = nilSpell /\ ret = ErrCall("none", "", "", nilError)

Next ==
    \/ CallNewSpell
    \/ CallNewSpellPaths
    \/ CallIsCorrect
    \/ CallSuggest
    \/ CallAnalyze
    \/ CallStem
    \/ CallAdd
    \/ CallAddWithAffix
    \/ CallRemove
    \/ CallAddDict

Spec == Init /\ [][Next]_vars

(***************************************************************************)
(* Properties                                                              *)
(***************************************************************************)

Roots == s.handle.roots

\* The call just made, as the step sees it.
Made(op) == ret'.op = op

\* C1: IsCorrect(w) is true right after a successful Add(w) or
\* AddWithAffix(w, example), and false right after a Remove(w) that follows
\* it with no other mutation in between.
C1_AddThenRemove ==
    [][ /\ (Made("Add") \/ Made("AddWithAffix")) /\ ret'.ok = TRUE
           => IsCorrect(s', ret'.a)
        /\ ( /\ ret.op \in {"Add", "AddWithAffix"} /\ ret.ok = TRUE
             /\ Made("Remove") /\ ret'.a = ret.a )
           => ~IsCorrect(s', ret'.a) ]_vars

\* C2: Remove(w) of a word that is no root reports no error and leaves
\* IsCorrect(v) as it was for every other word v.
C2_RemoveAbsent ==
    [][ (Made("Remove") /\ ret'.a \notin DOMAIN Roots)
        => /\ ret'.ok = TRUE
           /\ \A v \in ToyWords \ {ret'.a} : IsCorrect(s', v) = IsCorrect(s, v) ]_vars

C2_Witness ==
    /\ ret.op = "Remove" /\ ret.a = "zz" /\ ret.ok = TRUE
    /\ IsCorrect(s, "abs") /\ IsCorrect(s, "colour")

\* C3: AddDict on an absent or malformed source returns an error and leaves
\* the Spell as it was, so no root of the source is merged and IsCorrect
\* answers every word as before.
C3_AddDictFails ==
    [][ Made("AddDict")
        => /\ (~Stat(ret'.a) \/ Files[ret'.a].kind = "malformed") => ret'.err # nilError
           /\ ret'.err # nilError
              => /\ s' = s
                 /\ \A v \in ToyWords : IsCorrect(s', v) = IsCorrect(s, v) ]_vars

C3_Witness ==
    /\ ret.op = "AddDict" /\ ret.a = "bad.dic" /\ ret.err # nilError
    /\ IsCorrect(s, "abs") /\ ~IsCorrect(s, "colour")

\* C4: construction returns a Spell or an error, never both and never
\* neither: an error and no Spell for an empty lang with a non-empty path
\* and for a non-empty affix or dictionary path that does not exist; a valid
\* empty checker and no error for NewSpell with both parameters empty.
C4_Construction ==
    /\ ret.op \in {"NewSpell", "NewSpellPaths"}
       => (ret.err # nilError <=> s = nilSpell)
    /\ (ret.op = "NewSpell" /\ ret.b = "" /\ ret.a # "")
       => (ret.err # nilError /\ s = nilSpell)
    /\ (ret.op = "NewSpell" /\ ret.b # ""
        /\ (~Stat(Join(ret.a, ret.b \o ".aff")) \/ ~Stat(Join(ret.a, ret.b \o ".dic"))))
       => (ret.err # nilError /\ s = nilSpell)
    /\ (ret.op = "NewSpellPaths"
        /\ ((ret.a # "" /\ ~Stat(ret.a)) \/ (ret.b # "" /\ ~Stat(ret.b))))
       => (ret.err # nilError /\ s = nilSpell)
    /\ (ret.op = "NewSpell" /\ ret.a = "" /\ ret.b = "")
       => /\ ret.err = nilError
          /\ s # nilSpell
          /\ s.handle = [rules |-> <<>>, roots |-> NoRoots, system |-> FALSE]

C4_Witness ==
    /\ ret.op = "NewSpellPaths" /\ ret.a = "" /\ ret.b = "d/none.dic"
    /\ ret.err # nilError /\ s = nilSpell

\* C5: AddDict on a well-formed source returns no error, every root of the
\* source is accepted by IsCorrect right after the call, and a root stays
\* accepted through every later call that is not a Remove of it.
C5_AddDictMerges ==
    [][ /\ (Made("AddDict") /\ Stat(ret'.a) /\ Files[ret'.a].kind = "dic")
           => /\ ret'.err = nilError
              /\ \A r \in DOMAIN Files[ret'.a].roots : IsCorrect(s', r)
        /\ Parsed
           => \A r \in DOMAIN Files["en_au.dic"].roots :
                 (r \in DOMAIN Roots /\ ~(Made("Remove") /\ ret'.a = r))
                 => IsCorrect(s', r) ]_vars

C5_Witness ==
    /\ ret.op = "Add" /\ s # nilSpell
    /\ "colour" \in DOMAIN Roots /\ IsCorrect(s, "colour")
    /\ "ab" \in DOMAIN Roots

\* C6: under a parsed dictionary IsCorrect(word) is true iff the word is a
\* root, or some root with a rule combination its flags allow (one suffix,
\* one prefix, or a cross-product prefix and suffix) yields the word;
\* run-time additions are roots like the others.
C6_IsCorrectIff ==
    (ret.op = "IsCorrect" /\ Parsed)
    => (ret.ok <=> (\/ ret.a \in DOMAIN Roots
                     \/ \E r \in DOMAIN Roots : ret.a \in Generate(s.handle, r)))

C6_Witness ==
    /\ ret.op = "IsCorrect" /\ ret.a = "uabs" /\ ret.ok = TRUE
    /\ Parsed /\ "uabs" \notin DOMAIN Roots

\* C7: Suggest(w) does not return w when IsCorrect(w) is false.
C7_NotItself ==
    (ret.op = "Suggest" /\ ~IsCorrect(s, ret.a))
    => ret.a \notin SeqToSet(ret.list)

C7_Witness ==
    /\ ret.op = "Suggest" /\ ret.a = "abb" /\ ~IsCorrect(s, "abb")
    /\ ret.list = << "ab" >>

RECURSIVE UpToBlank(_)
UpToBlank(a) ==
    IF Len(a) = 0 \/ Chr(a, 1) = " " THEN ""
    ELSE Chr(a, 1) \o UpToBlank(Tail(a))

StemField(a) == IF StartsWith(a, " st:") THEN UpToBlank(DropLeft(a, 4)) ELSE ""

\* The roots that yield the word by one rule their flags name and whose
\* condition they satisfy.
Sources(w) ==
    {r \in DOMAIN Roots :
        \E i \in 1..Len(s.handle.rules) :
            /\ s.handle.rules[i].flag \in Roots[r]
            /\ Applicable(s.handle.rules[i], r)
            /\ ApplyRule(s.handle.rules[i], r) = w}

\* C9: when a rule under a flag of root r yields the surface form, Analyze
\* of the form has a line naming r, Stem of it contains r, and IsCorrect of
\* it is true.
C9_RoundTrip ==
    Parsed
    => /\ ret.op = "Analyze"
          => \A r \in Sources(ret.a) :
                \E i \in 1..Len(ret.list) : StemField(ret.list[i]) = r
       /\ ret.op = "Stem" => \A r \in Sources(ret.a) : r \in SeqToSet(ret.list)
       /\ ret.op = "IsCorrect" => (Sources(ret.a) # {} => ret.ok = TRUE)

C9_Witness ==
    /\ ret.op = "Analyze" /\ ret.a = "an" /\ Parsed
    /\ Sources("an") = {"ab"}
    /\ ret.list = << " st:ab fl:N" >>

\* The list is in ascending edit distance from w, ties in lexical order.
Ranked(w, l) ==
    \A i \in 1..(Len(l) - 1) : l[i] = l[i + 1] \/ RankBefore(w, l[i], l[i + 1])

\* The scenario of the single flagless root "necessary" and no rules.
NecessaryOnly ==
    Parsed /\ s.handle.rules = <<>> /\ Roots = ("necessary" :> {})

\* C10 as stated: for a word IsCorrect rejects, Suggest returns no
\* duplicates, only words IsCorrect accepts (checked under the parsed
\* dictionaries), in ascending edit distance with lexical tie-break, and
\* "necessary" first for "necesary" in the scenario.
C10_Original ==
    (ret.op = "Suggest" /\ ~IsCorrect(s, ret.a))
    => /\ NoDuplicates(ret.list)
       /\ Parsed => \A i \in 1..Len(ret.list) : IsCorrect(s, ret.list[i])
       /\ Ranked(ret.a, ret.list)
       /\ (NecessaryOnly /\ ret.a = "necesary")
          => (Len(ret.list) > 0 /\ ret.list[1] = "necessary")

\* C10 amended: for a word IsCorrect rejects, Suggest returns no duplicates
\* and only words IsCorrect accepts (checked under the parsed dictionaries),
\* and "necessary" first for "necesary" in the scenario; the order is the
\* engine's and need not be ascending in edit distance.
C10_Amended ==
    (ret.op = "Suggest" /\ ~IsCorrect(s, ret.a))
    => /\ NoDuplicates(ret.list)
       /\ Parsed => \A i \in 1..Len(ret.list) : IsCorrect(s, ret.list[i])
       /\ (NecessaryOnly /\ ret.a = "necesary")
          => (Len(ret.list) > 0 /\ ret.list[1] = "necessary")

C10_Witness ==
    /\ ret.op = "Suggest" /\ ret.a = "necesary" /\ NecessaryOnly
    /\ ~IsCorrect(s, "necesary") /\ ret.list = << "necessary" >>
====
